---- MODULE Spec2Model ----
(***************************************************************************)
(* Model of the blog-outline generator scripts of ai-voice-assistant:      *)
(*   corrected_generate.py, generate_fixed.py, generate_fixed_v2.py,       *)
(*   simple_fix.py and generate_alternative.py.                            *)
(*                                                                         *)
(* Python str values are TLA+ strings; TLC evaluates Len, \o and SubSeq on *)
(* them, so a character is a string of length one and every text          *)
(* operation below works character by character, as the regular           *)
(* expressions and the JSON decoder of the scripts do.                     *)
(***************************************************************************)
EXTENDS Integers, Sequences, FiniteSets, TLC

(***************************************************************************)
(* Characters and the Python str methods the scripts use.                  *)
(***************************************************************************)

\* The letters of the modelled texts.  The texts hold no digits, so no JSON
\* number token can occur in them.
LowerLetters == {"a", "b", "c", "d", "e", "f", "g", "h", "i", "j", "k", "l", "m", "n", "o",
                 "p", "q", "r", "s", "t", "u", "v", "w", "x", "y", "z"}
UpperLetters == {"A", "B", "C", "D", "E", "F", "G", "H", "I", "J", "K", "L", "M", "N", "O",
                 "P", "Q", "R", "S", "T", "U", "V", "W", "X", "Y", "Z"}
Letters == LowerLetters \cup UpperLetters

\* str.strip(), the regex class \s and the JSON decoder's whitespace agree
\* on the two whitespace characters of the modelled texts.
Whitespace == {" ", "\n"}

\* The regex class \w.
IsWord(c) == c \in Letters

\* s[i] with i counted from 1; "" beyond either end.
Ch(s, i) == IF i >= 1 /\ i <= Len(s) THEN SubSeq(s, i, i) ELSE ""

\* Is sub present in s at position i (counted from 1)?
At(s, i, sub) ==
    /\ i >= 1
    /\ i + Len(sub) - 1 <= Len(s)
    /\ SubSeq(s, i, i + Len(sub) - 1) = sub

\* s.startswith(sub), s.endswith(sub)
StartsWith(s, sub) == At(s, 1, sub)
EndsWith(s, sub) == At(s, Len(s) - Len(sub) + 1, sub)

\* The least member of a non-empty set of integers.
Min(S) == CHOOSE i \in S : \A j \in S : i <= j

\* The texts of a sequence joined in order (halving keeps the evaluation
\* shallow however long the sequence is).
RECURSIVE JoinRange(_, _, _)
JoinRange(pieces, lo, hi) ==
    IF lo > hi THEN ""
    ELSE IF lo = hi THEN pieces[lo]
    ELSE JoinRange(pieces, lo, (lo + hi) \div 2)
             \o JoinRange(pieces, (lo + hi) \div 2 + 1, hi)
Join(pieces) == JoinRange(pieces, 1, Len(pieces))

\* s.find(sub, start): Python's 0-based index of the first occurrence at or
\* after 0-based start, -1 when there is none.
Find(s, sub, start) ==
    LET hits == {i \in start..(Len(s) - Len(sub)) : At(s, i + 1, sub)}
    IN  IF hits = {} THEN -1 ELSE Min(hits)

\* sub in s
Contains(s, sub) == Find(s, sub, 0) # -1

\* The first position at or after i (from 1) that holds no whitespace.
RECURSIVE SkipWs(_, _)
SkipWs(s, i) == IF Ch(s, i) \in Whitespace THEN SkipWs(s, i + 1) ELSE i

\* The last position at or before i that holds no whitespace (0 if none).
RECURSIVE SkipWsBack(_, _)
SkipWsBack(s, i) == IF Ch(s, i) \in Whitespace THEN SkipWsBack(s, i - 1) ELSE i

\* s.strip()
Strip(s) ==
    LET a == SkipWs(s, 1)
        b == SkipWsBack(s, Len(s))
    IN  IF a > b THEN "" ELSE SubSeq(s, a, b)

\* s.strip(' "') as simple_fix.py calls it: strips spaces and double quotes.
RECURSIVE SkipSet(_, _, _)
SkipSet(s, i, set) == IF Ch(s, i) \in set THEN SkipSet(s, i + 1, set) ELSE i
RECURSIVE SkipSetBack(_, _, _)
SkipSetBack(s, i, set) == IF Ch(s, i) \in set THEN SkipSetBack(s, i - 1, set) ELSE i
StripChars(s, set) ==
    LET a == SkipSet(s, 1, set)
        b == SkipSetBack(s, Len(s), set)
    IN  IF a > b THEN "" ELSE SubSeq(s, a, b)

\* s[a:b] with Python's 0-based, end-exclusive bounds; a negative bound
\* counts from the end of s.
Slice(s, a, b) ==
    LET n  == Len(s)
        lo == IF a < 0 THEN (IF a + n < 0 THEN 0 ELSE a + n) ELSE (IF a > n THEN n ELSE a)
        hi == IF b < 0 THEN (IF b + n < 0 THEN 0 ELSE b + n) ELSE (IF b > n THEN n ELSE b)
    IN  IF lo >= hi THEN "" ELSE SubSeq(s, lo + 1, hi)

\* The first position of the run of character c that holds position i.
RECURSIVE RunStartOf(_, _, _)
RunStartOf(s, i, c) == IF Ch(s, i - 1) = c THEN RunStartOf(s, i - 1, c) ELSE i

\* s.replace('"', '\\"'): every double quote gets a backslash before it.
EscapeQuotes(s) ==
    Join([i \in 1..Len(s) |-> IF Ch(s, i) = "\"" THEN "\\\"" ELSE Ch(s, i)])

\* s.replace('""', '"'): the non-overlapping pairs of double quotes, left to
\* right, become one double quote each.  In a run of quotes the pairs start
\* at the run's first, third, fifth ... quote.
CollapseQuotes(s) ==
    Join([i \in 1..Len(s) |->
            IF Ch(s, i) # "\"" THEN Ch(s, i)
            ELSE IF (i - RunStartOf(s, i, "\"")) % 2 = 1 THEN ""
            ELSE "\""])

\* s.lower() on the modelled letters.
LowerCh(c) ==
    CASE c = "A" -> "a" [] c = "B" -> "b" [] c = "C" -> "c" [] c = "D" -> "d"
      [] c = "E" -> "e" [] c = "F" -> "f" [] c = "G" -> "g" [] c = "H" -> "h"
      [] c = "I" -> "i" [] c = "J" -> "j" [] c = "K" -> "k" [] c = "L" -> "l"
      [] c = "M" -> "m" [] c = "N" -> "n" [] c = "O" -> "o" [] c = "P" -> "p"
      [] c = "Q" -> "q" [] c = "R" -> "r" [] c = "S" -> "s" [] c = "T" -> "t"
      [] c = "U" -> "u" [] c = "V" -> "v" [] c = "W" -> "w" [] c = "X" -> "x"
      [] c = "Y" -> "y" [] c = "Z" -> "z"
      [] OTHER -> c
Lower(s) == Join([i \in 1..Len(s) |-> LowerCh(Ch(s, i))])

(***************************************************************************)
(* The regular-expression substitutions of the repair functions.           *)
(***************************************************************************)

\* The ends of the run of word characters that holds position i.
RECURSIVE RunEnd(_, _)
RunEnd(s, i) == IF IsWord(Ch(s, i + 1)) THEN RunEnd(s, i + 1) ELSE i
RECURSIVE RunStart(_, _)
RunStart(s, i) == IF IsWord(Ch(s, i - 1)) THEN RunStart(s, i - 1) ELSE i

\* The lookahead (?=\s*":) at position i.
AheadQuoteColon(s, i) == At(s, SkipWs(s, i), "\":")

\* Where a match of (\w+)(?=\s*":) starts in the left-to-right scan of
\* re.sub: \w+ is greedy and a shorter run is followed by a word character,
\* so a match is a whole run of word characters and starts at its first.
KeyMatchStart(s, i) ==
    /\ IsWord(Ch(s, i))
    /\ RunStart(s, i) = i
    /\ AheadQuoteColon(s, RunEnd(s, i) + 1)

\* re.sub(r'(\w+)(?=\s*":)', r'"\1"', s)
QuoteKeys(s) ==
    Join([i \in 1..Len(s) |->
            (IF KeyMatchStart(s, i) THEN "\"" ELSE "")
                \o Ch(s, i)
                \o (IF /\ IsWord(Ch(s, i))
                       /\ RunEnd(s, i) = i
                       /\ KeyMatchStart(s, RunStart(s, i))
                    THEN "\"" ELSE "")])

\* Where a match of (?<!")(\w+)(?=\s*":) starts: no match may start right
\* after a double quote, so in a run that follows a double quote the scan
\* moves on and the match starts at the run's second character.
KeyMatchStartLookbehind(s, i) ==
    /\ IsWord(Ch(s, i))
    /\ AheadQuoteColon(s, RunEnd(s, i) + 1)
    /\ \/ RunStart(s, i) = i /\ Ch(s, i - 1) # "\""
       \/ RunStart(s, i) = i - 1 /\ Ch(s, i - 2) = "\""

\* re.sub(r'(?<!")(\w+)(?=\s*":)', r'"\1"', s)
QuoteKeysLookbehind(s) ==
    Join([i \in 1..Len(s) |->
            (IF KeyMatchStartLookbehind(s, i) THEN "\"" ELSE "")
                \o Ch(s, i)
                \o (IF /\ IsWord(Ch(s, i))
                       /\ RunEnd(s, i) = i
                       /\ \/ KeyMatchStartLookbehind(s, RunStart(s, i))
                          \/ KeyMatchStartLookbehind(s, RunStart(s, i) + 1)
                    THEN "\"" ELSE "")])

\* Is the comma at position i the start of a match of ,\s*([}\]]) ?
TrailingComma(s, i) ==
    Ch(s, i) = "," /\ Ch(s, SkipWs(s, i + 1)) \in {"}", "]"}

\* The substitution as it would be if it were applied to the last match
\* only, which the specification rules out ("all occurrences, not just the
\* last").
RemoveLastTrailingComma(s) ==
    LET matches == {i \in 1..Len(s) : TrailingComma(s, i)}
        last    == CHOOSE i \in matches : \A j \in matches : j <= i
    IN  IF matches = {} THEN s
        ELSE Join([i \in 1..Len(s) |->
                     IF i >= last /\ i < SkipWs(s, last + 1) THEN "" ELSE Ch(s, i)])

\* re.sub(r',\s*([}\]])', r'\1', s): a match is replaced by its closing
\* character, so the comma and the whitespace after it are dropped.
RemoveTrailingCommas(s) ==
    Join([i \in 1..Len(s) |->
            IF TrailingComma(s, i) THEN ""
            ELSE IF Ch(s, i) \in Whitespace /\ TrailingComma(s, SkipWsBack(s, i)) THEN ""
            ELSE Ch(s, i)])

(***************************************************************************)
(* json.loads and json.dumps.                                              *)
(*                                                                         *)
(* A JSON value is a record [t, s, keys, items]: t is "str" (s the text),  *)
(* "lit" (s the literal's name), "arr" (items the elements) or "obj" (keys *)
(* and items the members, in insertion order, a repeated key keeping its   *)
(* last value as a Python dict does).                                      *)
(***************************************************************************)

JStr(s) == [t |-> "str", s |-> s, keys |-> <<>>, items |-> <<>>]
JLit(s) == [t |-> "lit", s |-> s, keys |-> <<>>, items |-> <<>>]
JArr(items) == [t |-> "arr", s |-> "", keys |-> <<>>, items |-> items]
JObj(keys, items) == [t |-> "obj", s |-> "", keys |-> keys, items |-> items]

\* The result of a scan: the value and the position after it, or a failure
\* (Python raises JSONDecodeError).
Ok(val, pos) == [ok |-> TRUE, val |-> val, pos |-> pos]
Bad == [ok |-> FALSE, val |-> JLit("null"), pos |-> 0]

\* The index of key k in keys, 0 when absent.
RECURSIVE KeyIndexFrom(_, _, _)
KeyIndexFrom(keys, k, i) ==
    IF i > Len(keys) THEN 0
    ELSE IF keys[i] = k THEN i
    ELSE KeyIndexFrom(keys, k, i + 1)
KeyIndex(keys, k) == KeyIndexFrom(keys, k, 1)

\* d[k] = v on a dict under construction.
DictPut(obj, k, v) ==
    LET i == KeyIndex(obj.keys, k)
    IN  IF i = 0 THEN JObj(Append(obj.keys, k), Append(obj.items, v))
        ELSE JObj(obj.keys, [obj.items EXCEPT ![i] = v])

\* The characters the decoder accepts after a backslash, and what each
\* stands for (\b and \u never occur in a modelled text).
Unescape(c) ==
    CASE c = "n" -> "\n" [] c = "t" -> "\t" [] c = "r" -> "\r" [] c = "f" -> "\f"
      [] OTHER -> c

\* Is position i of a string that opens at position from taken by the
\* backslash before it?  (An odd number of backslashes stand before it.)
Escaped(s, i, from) ==
    LET first == RunStartOf(s, i, "\\")
    IN  (i - (IF first < from THEN from ELSE first)) % 2 = 1

\* json.decoder.scanstring: s[i] is the character after the opening quote.
\* The string ends at the first double quote no backslash takes; a strict
\* decoder rejects a raw control character and an unknown escape.
ScanString(s, i) ==
    LET ends == {j \in i..Len(s) : Ch(s, j) = "\"" /\ ~Escaped(s, j, i)}
        close == Min(ends)
    IN  IF ends = {} THEN Bad
        ELSE IF \E k \in i..(close - 1) :
                    \/ Ch(s, k) \in {"\n", "\t", "\r", "\f"}
                    \/ /\ Escaped(s, k, i)
                       /\ Ch(s, k) \notin {"\"", "\\", "/", "n", "t", "r", "f"}
             THEN Bad
        ELSE Ok(JStr(Join([n \in 1..(close - i) |->
                            LET k == i + n - 1
                            IN  IF Escaped(s, k, i) THEN Unescape(Ch(s, k))
                                ELSE IF Ch(s, k) = "\\" THEN ""
                                ELSE Ch(s, k)])),
                close + 1)

RECURSIVE ScanOnce(_, _)
RECURSIVE ScanMembers(_, _, _)
RECURSIVE ScanElements(_, _, _)

\* json.decoder.JSONObject after the key's opening quote at s[i - 1]: the
\* key, ':', the value, then '}' or ',' and the next key's opening quote.
ScanMembers(s, i, obj) ==
    LET key == ScanString(s, i)
    IN  IF ~key.ok THEN Bad
        ELSE LET c == SkipWs(s, key.pos)
             IN  IF Ch(s, c) # ":" THEN Bad
                 ELSE LET val == ScanOnce(s, SkipWs(s, c + 1))
                      IN  IF ~val.ok THEN Bad
                          ELSE LET e    == SkipWs(s, val.pos)
                                   next == DictPut(obj, key.val.s, val.val)
                               IN  IF Ch(s, e) = "}" THEN Ok(next, e + 1)
                                   ELSE IF Ch(s, e) # "," THEN Bad
                                   ELSE IF Ch(s, SkipWs(s, e + 1)) # "\"" THEN Bad
                                   ELSE ScanMembers(s, SkipWs(s, e + 1) + 1, next)

\* json.decoder.JSONArray at the first element s[i]: the value, then ']'
\* or ',' and the next value.
ScanElements(s, i, items) ==
    LET val == ScanOnce(s, i)
    IN  IF ~val.ok THEN Bad
        ELSE LET e == SkipWs(s, val.pos)
             IN  IF Ch(s, e) = "]" THEN Ok(JArr(Append(items, val.val)), e + 1)
                 ELSE IF Ch(s, e) # "," THEN Bad
                 ELSE ScanElements(s, SkipWs(s, e + 1), Append(items, val.val))

\* json.scanner.py_make_scanner._scan_once at s[i].
ScanOnce(s, i) ==
    LET c == Ch(s, i)
    IN  IF c = "\"" THEN ScanString(s, i + 1)
        ELSE IF c = "{"
             THEN LET k == SkipWs(s, i + 1)
                  IN  IF Ch(s, k) = "}" THEN Ok(JObj(<<>>, <<>>), k + 1)
                      ELSE IF Ch(s, k) # "\"" THEN Bad
                      ELSE ScanMembers(s, k + 1, JObj(<<>>, <<>>))
        ELSE IF c = "["
             THEN LET k == SkipWs(s, i + 1)
                  IN  IF Ch(s, k) = "]" THEN Ok(JArr(<<>>), k + 1)
                      ELSE ScanElements(s, k, <<>>)
        ELSE IF At(s, i, "null") THEN Ok(JLit("null"), i + 4)
        ELSE IF At(s, i, "true") THEN Ok(JLit("true"), i + 4)
        ELSE IF At(s, i, "false") THEN Ok(JLit("false"), i + 5)
        ELSE IF At(s, i, "NaN") THEN Ok(JLit("NaN"), i + 3)
        ELSE IF At(s, i, "Infinity") THEN Ok(JLit("Infinity"), i + 8)
        ELSE IF At(s, i, "-Infinity") THEN Ok(JLit("-Infinity"), i + 9)
        ELSE Bad

\* json.loads(s): one value between optional whitespace, nothing after it
\* ("Extra data" otherwise).  ok = FALSE stands for JSONDecodeError.
loads(s) ==
    LET r == ScanOnce(s, SkipWs(s, 1))
    IN  IF r.ok /\ SkipWs(s, r.pos) = Len(s) + 1 THEN r ELSE Bad

\* isinstance(v, dict) and k in v
HasKey(v, k) == v.t = "obj" /\ KeyIndex(v.keys, k) # 0

\* The escapes json.dumps writes inside a string.
DumpCh(c) ==
    CASE c = "\"" -> "\\\"" [] c = "\\" -> "\\\\" [] c = "\n" -> "\\n"
      [] c = "\t" -> "\\t" [] c = "\r" -> "\\r" [] c = "\f" -> "\\f"
      [] OTHER -> c
DumpStr(s) == "\"" \o Join([i \in 1..Len(s) |-> DumpCh(Ch(s, i))]) \o "\""

\* depth levels of the two-space indentation.
RECURSIVE Indent(_)
Indent(depth) == IF depth = 0 THEN "" ELSE "  " \o Indent(depth - 1)

\* json.dumps(v, indent=2): every element and member on a line of its own,
\* ',' between them, ': ' after a key; an empty container is [] or {}.
RECURSIVE dumps(_, _)
RECURSIVE DumpItems(_, _, _)
DumpItems(v, i, depth) ==
    IF i > Len(v.items) THEN ""
    ELSE (IF i > 1 THEN "," ELSE "") \o "\n" \o Indent(depth)
         \o (IF v.t = "obj" THEN DumpStr(v.keys[i]) \o ": " ELSE "")
         \o dumps(v.items[i], depth)
         \o DumpItems(v, i + 1, depth)
dumps(v, depth) ==
    IF v.t = "str" THEN DumpStr(v.s)
    ELSE IF v.t = "lit" THEN v.s
    ELSE IF Len(v.items) = 0 THEN (IF v.t = "obj" THEN "{}" ELSE "[]")
    ELSE (IF v.t = "obj" THEN "{" ELSE "[")
         \o DumpItems(v, 1, depth + 1)
         \o "\n" \o Indent(depth)
         \o (IF v.t = "obj" THEN "}" ELSE "]")

(***************************************************************************)
(* The repair functions.                                                   *)
(***************************************************************************)

\* The number of characters of the raw text the error object carries.
DiagChars == 100

\* The test that guards the non-JSON branch of every repair function:
\* s.startswith('[') and not s.strip().startswith('{')
LooksLikeList(s) == StartsWith(s, "[") /\ ~StartsWith(Strip(s), "{")

\* corrected_generate.py: fix_json_correctly up to the brace completion:
\* the keys are quoted only when none of the three is found quoted, then
\* the missing braces are added.
BraceCompleted(json_str) ==
    LET s == Strip(json_str)
        has_quoted_keys ==
            \/ Contains(s, "\"title\":")
            \/ Contains(s, "\"outline\":")
            \/ Contains(s, "\"intro\":")
        keyed  == IF has_quoted_keys THEN s ELSE QuoteKeys(s)
        opened == IF ~StartsWith(keyed, "{") THEN "{" \o keyed ELSE keyed
    IN  IF ~EndsWith(opened, "}") THEN opened \o "}" ELSE opened

\* corrected_generate.py: fix_json_correctly, the text it returns.
fix_json_correctly(json_str) ==
    IF LooksLikeList(Strip(json_str))
    THEN "{\"error\": \"Model generated non-JSON output\"}"
    ELSE RemoveTrailingCommas(BraceCompleted(json_str))

\* What fix_json_correctly prints while it runs.
fix_json_correctly_prints(json_str) ==
    IF LooksLikeList(Strip(json_str)) THEN <<"warn_non_json">> ELSE <<>>

\* The error object of generate_fixed.py and generate_fixed_v2.py.
ErrorObject(json_str) ==
    "{\"error\": \"Model generated non-JSON output\", \"raw_output\": \""
        \o Slice(EscapeQuotes(json_str), 0, DiagChars)
        \o "...\"}"

\* generate_fixed.py: fix_json, the text it returns.
fix_json(json_str) ==
    LET keyed  == QuoteKeys(json_str)
        opened == IF ~StartsWith(Strip(keyed), "{") THEN "{" \o keyed ELSE keyed
        closed == IF ~EndsWith(Strip(opened), "}") THEN opened \o "}" ELSE opened
    IN  IF LooksLikeList(json_str)
        THEN ErrorObject(json_str)
        ELSE Strip(RemoveTrailingCommas(closed))

\* generate_fixed_v2.py: fix_json, the text it returns.
fix_json_v2(json_str) ==
    LET keyed  == QuoteKeysLookbehind(Strip(json_str))
        opened == IF ~StartsWith(keyed, "{") THEN "{" \o keyed ELSE keyed
        closed == IF ~EndsWith(opened, "}") THEN opened \o "}" ELSE opened
    IN  IF LooksLikeList(json_str)
        THEN ErrorObject(json_str)
        ELSE RemoveTrailingCommas(closed)

\* What either fix_json prints while it runs.
fix_json_prints(json_str) ==
    IF LooksLikeList(json_str) THEN <<"warn_non_json">> ELSE <<>>

\* simple_fix.py: fix_json_simple up to the brace completion: a brace is
\* added only when a quoted title or outline key is in the text.
BraceCompletedSimple(json_str) ==
    LET s      == Strip(json_str)
        opened == IF /\ ~StartsWith(s, "{")
                     /\ (Contains(s, "\"title\":") \/ Contains(s, "\"outline\":"))
                  THEN "{" \o s ELSE s
    IN  IF /\ ~EndsWith(opened, "}")
           /\ (Contains(opened, "\"title\":") \/ Contains(opened, "\"outline\":"))
        THEN opened \o "}" ELSE opened

\* simple_fix.py: fix_json_simple.
fix_json_simple(json_str) ==
    CollapseQuotes(RemoveTrailingCommas(BraceCompletedSimple(json_str)))

(***************************************************************************)
(* The raw model outputs the scripts are run on.                           *)
(***************************************************************************)

\* The longest run of whitespace put before a raw text.
MaxPad == 1

RECURSIVE Pad(_)
Pad(n) == IF n = 0 THEN "" ELSE " " \o Pad(n - 1)

\* A key as the model may write it: quoted, quoted with a space before the
\* colon, without its opening quote, or bare.
KeyStyles == {"quoted", "spaced", "unopened", "bare"}
Key(name, style) ==
    CASE style = "quoted"   -> "\"" \o name \o "\":"
      [] style = "spaced"   -> "\"" \o name \o "\" :"
      [] style = "unopened" -> name \o "\":"
      [] style = "bare"     -> name \o ":"

\* The three fields, sep between them, gap between a key and its value.
Fields(style, sep, gap, title, outline, intro) ==
    Key("title", style) \o gap \o "\"" \o title \o "\"" \o sep
        \o Key("outline", style) \o gap \o outline \o sep
        \o Key("intro", style) \o gap \o "\"" \o intro \o "\""

\* Title texts as they stand between the quotes of a JSON string: plain,
\* with commas before closing brackets or braces, with a colon, with braces
\* and with an escaped quote.
TitleTexts == {"A", "A,}", "A,,]", "A, ]", "a: b", "{x}", "a\\\"b"}

\* Raw texts that are valid JSON and satisfy the schema.
ValidDocs ==
    {"{" \o Fields(style, sep, gap, title, "[\"B\",\"C\",\"D\"]", "E") \o "}" :
        style \in {"quoted", "spaced"}, sep \in {",", ", "}, gap \in {"", " "},
        title \in TitleTexts}
    \cup {"{\n  \"title\": \"A\",\n  \"outline\": [\n    \"B\",\n    \"C\",\n    \"D\"\n  ],\n  \"intro\": \"E,}\"\n}",
          "{\"intro\":\"E\",\"outline\":[\"B, ]\",\"C\",\"D\"],\"title\":\"A\"}"}

\* Raw texts with the damage the repair functions are written for: missing
\* braces, trailing commas, keys in any style, a missing intro.
DamagedDocs ==
    {open \o Key("title", style) \o "\"A\"," \o Key("outline", style) \o outline
          \o (IF hasIntro THEN "," \o Key("intro", style) \o "\"E\"" ELSE "")
          \o trail \o close :
        open \in {"{", ""}, close \in {"}", ""}, style \in KeyStyles,
        outline \in {"[\"B\",\"C\",\"D\"]", "[\"B\",\"C\",\"D\", ]"},
        hasIntro \in BOOLEAN, trail \in {"", ",", ", ", ",,"}}

\* The number of items of the long lists: with it they are longer than the
\* DiagChars characters the error object carries.
LongListItems == 24

\* Lists longer than DiagChars characters, the model repeating itself.
LongLists ==
    {"[" \o lead \o Join([i \in 1..LongListItems |-> "\"ab\","]) \o "\"z\"]" :
        lead \in {"", "\"c\","}}

\* Raw texts that are a list, not an object, after up to MaxPad spaces.
ListDocs ==
    {Pad(n) \o list :
        n \in 0..MaxPad,
        list \in {"[\"a\",\"b\",\"c\"]", "[\"a\",\"b\",\"c\"] ", "[[\"a\"],[\"a\"]]",
                  "[\"title\":\"A\",\"outline\":[\"B\"],\"intro\":\"E\"]"}
                 \cup LongLists}

\* Raw texts without any of the required fields.
ProseDocs ==
    {"random prose", "\"random prose\"", "", " ", "{}", "{\"a\":\"b\"}", "null",
     "{\"t\":\"A\"}", "a\":\"b\""}

\* Raw texts whose three field fragments are intact while the text around
\* them is corrupted.
SalvageDocs ==
    {before \o "{" \o Fields("quoted", sep, gap, title, "[\"B\",\"C\",\"D\"]", "E")
            \o "}" \o after :
        before \in {"", "xx "}, after \in {"", " yy"},
        sep \in {",", ", ", " oops ", " "}, gap \in {"", " "},
        title \in {"A", "a: b"}}
    \cup {before \o "{\"outline\":[\"B\",\"C\",\"D\"]" \o sep \o "\"intro\":" \o gap
                 \o "\"E\"" \o sep \o "\"title\":" \o gap \o "\"A\"}" :
        before \in {"", "xx "}, sep \in {",", " oops "}, gap \in {"", " "}}

\* Raw texts cut off by the token limit: every proper prefix of a document,
\* and the prefixes of a document with the outline last that stop inside it.
TruncatedDocs ==
    LET doc  == "{\"title\": \"A\", \"outline\": [\"B\", \"C\", \"D\"], \"intro\": \"E\"}"
        last == "{\"intro\":\"E\",\"title\":\"A\",\"outline\":[\"B\",\"C\",\"D\"]}"
    IN  {SubSeq(doc, 1, n) : n \in 1..(Len(doc) - 1)}
        \cup {SubSeq(last, 1, n) : n \in (Len(last) - 16)..(Len(last) - 1)}

\* Raw texts whose keys are not all written the same way: some fully
\* quoted, the others without their opening quote.
MixedDocs ==
    {"{" \o Key("title", st[1]) \o "\"A\"," \o Key("outline", st[2])
         \o "[\"B\",\"C\",\"D\"]," \o Key("intro", st[3]) \o "\"E\"}" :
        st \in [1..3 -> {"quoted", "unopened"}]}

Inputs ==
    ValidDocs \cup DamagedDocs \cup ListDocs \cup ProseDocs \cup SalvageDocs
        \cup TruncatedDocs \cup MixedDocs

(***************************************************************************)
(* Field salvage and the fallback records.                                 *)
(***************************************************************************)

\* A record as the scripts assemble it: {"title": ..., "outline": ...,
\* "intro": ...}.
Record(title, outline, intro) ==
    JObj(<<"title", "outline", "intro">>, <<JStr(title), outline, JStr(intro)>>)

\* A regex search result: the captured group, or no match.
Match(group) == [found |-> TRUE, group |-> group]
NoMatch == [found |-> FALSE, group |-> ""]

\* re.search(key \s* open ([^close]+) close, s) for the patterns of
\* generate_fixed_v2.py: after key and optional whitespace comes the
\* opening character, then one or more characters that are not the closing
\* character, then the closing character.  The leftmost match is returned;
\* its group is the text between the two (keepEnds = FALSE) or the text
\* with both (keepEnds = TRUE).
SearchField(s, key, open, close, keepEnds) ==
    LET OpenAt(p) == SkipWs(s, p + Len(key))
        CloseAt(p) ==
            LET ends == {j \in (OpenAt(p) + 1)..Len(s) : Ch(s, j) = close}
            IN  IF ends = {} THEN 0 ELSE Min(ends)
        starts == {p \in 1..Len(s) :
                      /\ At(s, p, key)
                      /\ Ch(s, OpenAt(p)) = open
                      /\ CloseAt(p) >= OpenAt(p) + 2}
        p0 == Min(starts)
    IN  IF starts = {} THEN NoMatch
        ELSE IF keepEnds THEN Match(SubSeq(s, OpenAt(p0), CloseAt(p0)))
        ELSE Match(SubSeq(s, OpenAt(p0) + 1, CloseAt(p0) - 1))

\* A fallback record that carries the topic and the tone as they were given.
FallbackVerbatim(topic, tone) ==
    Record(topic \o " Guide",
           JArr(<<JStr("Introduction"), JStr("Main Content"), JStr("Conclusion")>>),
           "This is a " \o tone \o " guide about " \o topic \o ".")

\* The fallback record of corrected_generate.py, generate_fixed.py and
\* generate_fixed_v2.py.
Fallback(topic, tone) ==
    Record(topic \o " Guide",
           JArr(<<JStr("Introduction"), JStr("Main Content"), JStr("Conclusion")>>),
           "This is a " \o Lower(tone) \o " guide about " \o Lower(topic) \o ".")

\* The fallback record of simple_fix.py.
FallbackSimple(topic) ==
    Record("Professional " \o topic \o ": A Comprehensive Guide",
           JArr(<<JStr("Getting Started"), JStr("Key Techniques"), JStr("Advanced Tips")>>),
           "This professional guide provides comprehensive insights into "
               \o Lower(topic) \o ".")

\* generate_alternative.py: create_fallback_json.
create_fallback_json(topic, tone) ==
    LET t == Lower(tone)
        title ==
            CASE t = "friendly"     -> "Your Complete Guide to " \o topic
              [] t = "professional" -> "Professional " \o topic \o ": A Comprehensive Overview"
              [] t = "casual"       -> "Everything You Need to Know About " \o topic
              [] t = "expert"       -> "Advanced " \o topic \o ": Expert Insights and Strategies"
              [] OTHER              -> topic \o ": A " \o tone \o " Guide"
        outline ==
            IF Contains(Lower(topic), "workout") \/ Contains(Lower(topic), "fitness")
            THEN <<"Getting Started", "Essential Equipment", "Weekly Schedule">>
            ELSE IF Contains(Lower(topic), "cooking") \/ Contains(Lower(topic), "recipe")
            THEN <<"Preparation", "Cooking Techniques", "Serving Suggestions">>
            ELSE <<"Introduction", "Key Concepts", "Practical Applications">>
    IN  Record(title,
               JArr([i \in 1..3 |-> JStr(outline[i])]),
               "Welcome to this " \o t \o " guide on " \o Lower(topic)
                   \o ". Here you'll discover essential information and practical tips to help you succeed.")

\* What a script emits as its result: a parsed, reconstructed or fallback
\* record.  What a handler does: the results it emits and the lines it
\* prints.
Emit(kind, rec) == [kind |-> kind, rec |-> rec]
Did(emits, prints) == [emits |-> emits, prints |-> prints]

\* corrected_generate.py and generate_fixed.py: the handler of a
\* JSONDecodeError.
ExceptFallback(topic, tone) ==
    Did(<<Emit("fallback", Fallback(topic, tone))>>, <<"parse_failed", "fallback">>)

\* generate_fixed_v2.py: the handler of a JSONDecodeError.  The fields are
\* searched in the cleaned text; a failure to parse the outline is caught
\* and falls through to the fallback.
ExceptV2(cleaned, topic, tone) ==
    LET title_match   == SearchField(cleaned, "\"title\":", "\"", "\"", FALSE)
        outline_match == SearchField(cleaned, "\"outline\":", "[", "]", TRUE)
        intro_match   == SearchField(cleaned, "\"intro\":", "\"", "\"", FALSE)
        outline       == loads(outline_match.group)
        last == Did(<<Emit("fallback", Fallback(topic, tone))>>, <<"fallback">>)
    IN  IF /\ Contains(cleaned, "\"title\":")
           /\ Contains(cleaned, "\"outline\":")
           /\ Contains(cleaned, "\"intro\":")
        THEN IF title_match.found /\ outline_match.found /\ intro_match.found
             THEN IF outline.ok
                  THEN Did(<<Emit("reconstructed",
                                  Record(title_match.group, outline.val, intro_match.group))>>,
                           <<"parse_failed", "reconstructed">>)
                  ELSE Did(last.emits, <<"parse_failed", "reconstruction_failed", "fallback">>)
             ELSE Did(last.emits, <<"parse_failed", "fallback">>)
        ELSE Did(last.emits, <<"parse_failed", "fallback">>)

\* A handler of a JSONDecodeError whose reconstruction is not guarded by a
\* try block of its own: what it raises reaches the outermost handler.
ExceptUnguarded(raw, topic) ==
    IF /\ Contains(raw, "\"title\":")
       /\ Contains(raw, "\"outline\":")
       /\ Contains(raw, "\"intro\":")
    THEN Did(<<>>, <<"parse_failed", "pipeline_error">>)
    ELSE Did(<<>>, <<"parse_failed">>)

\* simple_fix.py: the handler of a JSONDecodeError.  The fields are cut out
\* of the raw text by position; positions are Python's, counted from 0.
ExceptSimple(raw, topic) ==
    LET title_start == Find(raw, "\"title\":", 0) + 8
        title_end   == IF Find(raw, "\",", title_start) = -1
                       THEN Find(raw, "\"", title_start + 1)
                       ELSE Find(raw, "\",", title_start)
        title       == StripChars(Slice(raw, title_start, title_end), {" ", "\""})
        outline_start == Find(raw, "\"outline\":", 0) + 10
        outline_end   == Find(raw, "]", outline_start) + 1
        outline       == loads(Strip(Slice(raw, outline_start, outline_end)))
        intro_start == Find(raw, "\"intro\":", 0) + 8
        quotes      == {i \in (intro_start + 1)..(Len(raw) - 1) :
                           Ch(raw, i + 1) = "\"" /\ Ch(raw, i) # "\\"}
        intro_end   == IF quotes = {} THEN Len(raw) ELSE Min(quotes)
        intro       == StripChars(Slice(raw, intro_start, intro_end), {" ", "\""})
    IN  IF /\ Contains(raw, "\"title\":")
           /\ Contains(raw, "\"outline\":")
           /\ Contains(raw, "\"intro\":")
        THEN IF outline.ok
             THEN Did(<<Emit("reconstructed", Record(title, outline.val, intro))>>,
                      <<"parse_failed", "reconstructed">>)
             ELSE Did(<<Emit("fallback", FallbackSimple(topic))>>,
                      <<"parse_failed", "reconstruction_failed", "fallback">>)
        ELSE Did(<<>>, <<"parse_failed">>)

\* The end of the match of \{[^{}]*(?:\{[^{}]*\}[^{}]*)*\} that starts at
\* the '{' at position i, 0 when there is none: the braces after i must be
\* pairs of '{' and '}' followed by a '}'.
NextBrace(s, i) ==
    LET braces == {j \in (i + 1)..Len(s) : Ch(s, j) \in {"{", "}"}}
    IN  IF braces = {} THEN 0 ELSE Min(braces)
RECURSIVE BlockEnd(_, _)
BlockEnd(s, i) ==
    LET b == NextBrace(s, i)
    IN  IF b = 0 THEN 0
        ELSE IF Ch(s, b) = "}" THEN b
        ELSE IF NextBrace(s, b) = 0 \/ Ch(s, NextBrace(s, b)) = "{" THEN 0
        ELSE BlockEnd(s, NextBrace(s, b))

\* generate_alternative.py: extract_json_from_text.  re.findall yields the
\* non-overlapping matches from left to right; the first one that parses
\* to a dict with a 'title' is returned, found = FALSE standing for None.
RECURSIVE ExtractFrom(_, _)
ExtractFrom(text, i) ==
    LET opens == {j \in i..Len(text) : Ch(text, j) = "{" /\ BlockEnd(text, j) # 0}
        start == Min(opens)
        data  == loads(SubSeq(text, start, BlockEnd(text, start)))
    IN  IF opens = {} THEN [found |-> FALSE, data |-> JLit("null")]
        ELSE IF data.ok /\ HasKey(data.val, "title") THEN [found |-> TRUE, data |-> data.val]
        ELSE ExtractFrom(text, BlockEnd(text, start) + 1)
extract_json_from_text(text) == ExtractFrom(text, 1)

(***************************************************************************)
(* The scripts: one run of main().                                         *)
(***************************************************************************)

VARIABLES
    script,    \* which script runs
    topic,     \* sys.argv[1] or its default
    tone,      \* sys.argv[2] or its default
    pc,        \* where main() stands
    raw,       \* the generated text (generate_alternative.py: generated_part)
    cleaned,   \* the repaired text (generate_alternative.py: full_json)
    outcome,   \* the records emitted as the run's result, in order
    printed    \* the diagnostics printed, in order

\* The voice assistant: one browser session of one of its three scripts.
VARIABLES
    app,                  \* which script the session runs
    use_openai,           \* the choice of the "Choose LLM" radio
    history,              \* st.session_state.history
    uploaded_audio,       \* the file in the uploader, 0 for none
    playing,              \* webrtc_ctx.state.playing
    audio_frames,         \* the number of frames in the frame buffer
    recording,            \* AudioProcessor.recording (fixed_voice_assistant.py)
    recording_state,      \* st.session_state.recording_state
    current_transcript,   \* st.session_state.current_transcript
    step,                 \* where the script run stands, "idle" between runs
    clicked,              \* the button whose click started the run, "" for none
    rerun,                \* st.rerun() was called and the run it asks for is due
    takes,                \* how many recordings were transcribed to a text
    handled,              \* per take, the calls of handle_transcript with it
    forwarded,            \* the calls of handle_transcript with the file now uploaded
    receiving,            \* where a call of AudioProcessor.recv stands, "no" for none
    stale,                \* the list that recv loaded is no longer the session's buffer
    temp_files,           \* the number of temporary audio files on disk
    backend               \* how the request of the handle_transcript in progress ended

jvars == <<script, topic, tone, pc, raw, cleaned, outcome, printed>>
avars == <<app, use_openai, history, uploaded_audio, playing, audio_frames,
           recording, recording_state, current_transcript, step, clicked, rerun,
           takes, handled, forwarded, receiving, stale, temp_files, backend>>
vars == <<jvars, avars>>

\* No voice-assistant session is open.
AssistantOff ==
    /\ app = "none"
    /\ use_openai = FALSE
    /\ history = <<>>
    /\ uploaded_audio = 0
    /\ playing = FALSE
    /\ audio_frames = 0
    /\ recording = FALSE
    /\ recording_state = "stopped"
    /\ current_transcript = [src |-> "none", n |-> 0, text |-> ""]
    /\ step = "off"
    /\ clicked = ""
    /\ rerun = FALSE
    /\ takes = 0
    /\ handled = <<>>
    /\ forwarded = 0
    /\ receiving = "no"
    /\ stale = FALSE
    /\ temp_files = 0
    /\ backend = "idle"

\* No generator script runs.
ScriptsOff ==
    /\ script = "none"
    /\ topic = ""
    /\ tone = ""
    /\ pc = "off"
    /\ raw = ""
    /\ cleaned = ""
    /\ outcome = <<>>
    /\ printed = <<>>

\* The scripts whose main() repairs the raw text and parses it.
RepairScripts == {"corrected_generate", "generate_fixed", "generate_fixed_v2", "simple_fix"}
Scripts == RepairScripts \cup {"generate_alternative"}

\* The command lines: the defaults of main() and one other.
Args == {<<"Home Workout Routines", "Friendly">>, <<"Tea", "Formal">>}

Init ==
    /\ script \in Scripts
    /\ \E args \in Args : topic = args[1] /\ tone = args[2]
    /\ pc = "start"
    /\ raw = ""
    /\ cleaned = ""
    /\ outcome = <<>>
    /\ printed = <<>>
    /\ AssistantOff

\* The repair function each script calls, and what it prints.
Fix(which, text) ==
    CASE which = "corrected_generate" -> fix_json_correctly(text)
      [] which = "generate_fixed"     -> fix_json(text)
      [] which = "generate_fixed_v2"  -> fix_json_v2(text)
      [] which = "simple_fix"         -> fix_json_simple(text)
FixPrints(which, text) ==
    CASE which = "corrected_generate" -> fix_json_correctly_prints(text)
      [] which = "generate_fixed"     -> fix_json_prints(text)
      [] which = "generate_fixed_v2"  -> fix_json_prints(text)
      [] which = "simple_fix"         -> <<>>

\* The except JSONDecodeError block of each script.
Except(which, text, fixed, top, ton) ==
    CASE which = "corrected_generate" -> ExceptFallback(top, ton)
      [] which = "generate_fixed"     -> ExceptFallback(top, ton)
      [] which = "generate_fixed_v2"  -> ExceptV2(fixed, top, ton)
      [] which = "simple_fix"         -> ExceptSimple(text, top)

\* The generator returns a text; main() prints it.
Generate ==
    /\ pc = "start"
    /\ script \in RepairScripts
    /\ \E text \in Inputs : raw' = text
    /\ printed' = <<"raw_output">>
    /\ pc' = "generated"
    /\ UNCHANGED <<script, topic, tone, cleaned, outcome>>
    /\ UNCHANGED avars

\* The pipeline raises: the outer except block prints the error.
PipelineError ==
    /\ pc = "start"
    /\ script \in RepairScripts
    /\ printed' = <<"pipeline_error">>
    /\ pc' = "done"
    /\ UNCHANGED <<script, topic, tone, raw, cleaned, outcome>>
    /\ UNCHANGED avars

\* cleaned = fix_json...(raw); print("Cleaned output:", ...)
Clean ==
    /\ pc = "generated"
    /\ cleaned' = Fix(script, raw)
    /\ printed' = printed \o FixPrints(script, raw) \o <<"cleaned_output">>
    /\ pc' = "cleaned"
    /\ UNCHANGED <<script, topic, tone, raw, outcome>>
    /\ UNCHANGED avars

\* json.loads(cleaned) returns: the data is printed as the parsed result.
ParseSucceeds ==
    /\ pc = "cleaned"
    /\ script \in RepairScripts
    /\ loads(cleaned).ok
    /\ outcome' = <<Emit("parsed", loads(cleaned).val)>>
    /\ printed' = Append(printed, "success")
    /\ pc' = "done"
    /\ UNCHANGED <<script, topic, tone, raw, cleaned>>
    /\ UNCHANGED avars

\* json.loads(cleaned) raises JSONDecodeError: the except block runs.
ParseFails ==
    /\ pc = "cleaned"
    /\ script \in RepairScripts
    /\ ~loads(cleaned).ok
    /\ LET did == Except(script, raw, cleaned, topic, tone)
       IN  /\ outcome' = did.emits
           /\ printed' = printed \o did.prints
    /\ pc' = "done"
    /\ UNCHANGED <<script, topic, tone, raw, cleaned>>
    /\ UNCHANGED avars

\* generate_alternative.py: the generator returns; the generated part, with
\* a '{' put before it, is the text to extract from.
AltGenerate ==
    /\ pc = "start"
    /\ script = "generate_alternative"
    /\ \E text \in Inputs : raw' = text /\ cleaned' = "{" \o text
    /\ printed' = <<"raw_output", "extracted_attempt">>
    /\ pc' = "cleaned"
    /\ UNCHANGED <<script, topic, tone, outcome>>
    /\ UNCHANGED avars

\* generate_alternative.py: extract_json_from_text finds a record.
AltExtract ==
    /\ pc = "cleaned"
    /\ script = "generate_alternative"
    /\ extract_json_from_text(cleaned).found
    /\ outcome' = <<Emit("parsed", extract_json_from_text(cleaned).data)>>
    /\ printed' = Append(printed, "success")
    /\ pc' = "done"
    /\ UNCHANGED <<script, topic, tone, raw, cleaned>>
    /\ UNCHANGED avars

\* generate_alternative.py: the except block, entered when the pipeline
\* raises or when nothing was extracted (ValueError).
AltFallback ==
    /\ script = "generate_alternative"
    /\ \/ pc = "start"
       \/ pc = "cleaned" /\ ~extract_json_from_text(cleaned).found
    /\ outcome' = <<Emit("fallback", create_fallback_json(topic, tone))>>
    /\ printed' = printed \o <<"generation_failed", "fallback">>
    /\ pc' = "done"
    /\ UNCHANGED <<script, topic, tone, raw, cleaned>>
    /\ UNCHANGED avars

Next ==
    \/ Generate
    \/ PipelineError
    \/ Clean
    \/ ParseSucceeds
    \/ ParseFails
    \/ AltGenerate
    \/ AltExtract
    \/ AltFallback

Spec == Init /\ [][Next]_vars

(***************************************************************************)
(* The voice assistant.  A Streamlit script runs from top to bottom each   *)
(* time the user touches a widget or the script calls st.rerun(), and the  *)
(* session state lives on between the runs.  A widget event that arrives   *)
(* while a run is in progress stops that run at the st call where it       *)
(* stands, so a run is modelled in steps that end at st calls, and step    *)
(* names the st call the run has reached.  The frames arrive on the audio  *)
(* thread while the stream plays.                                          *)
(***************************************************************************)

AppPlain == "voice_assistant.py"
AppRecorder == "voice_assistant/voice_assistant.py"
AppFixed == "fixed_voice_assistant.py"
Apps == {AppPlain, AppRecorder, AppFixed}

\* The files the user may put into the uploader, one after the other.
MaxUploads == 1
\* The frames the audio thread delivers before the buffer is emptied.
MaxFrames == 2
\* The recordings that are transcribed to a text.
MaxTakes == 2
\* The entries the conversation history may hold.
MaxHistory == 4
\* The times one uploaded file is handed to handle_transcript.
MaxForwarded == 2
\* The temporary audio files that may lie on disk.
MaxTempFiles == 2

\* A transcript: where it comes from (the n-th upload or take) and whether
\* words were heard.  NoTranscript stands for None.
NoTranscript == [src |-> "none", n |-> 0, text |-> ""]
Heard(src, n) == [src |-> src, n |-> n, text |-> "words"]
Silence(src, n) == [src |-> src, n |-> n, text |-> ""]

\* if user_text: neither None nor the empty string.
Truthy(user_text) == user_text.text # ""

\* transcribe_audio: the stripped text whisper returns, None when it raises.
TranscribeResults == {"text", "empty", "error"}
transcribe_audio(result, src, n) ==
    CASE result = "text"  -> Heard(src, n)
      [] result = "empty" -> Silence(src, n)
      [] OTHER            -> NoTranscript

\* How the request to the backend may end: a reply, an exception of the
\* requests library (no connection, a timeout, an HTTP error status), any
\* other exception.
LLMResults == {"ok", "request_error", "error"}

\* A request whose failure is not turned into a text: no reply at all.
NoReply(result) ==
    IF result = "ok" THEN "reply" ELSE ""

\* get_openai_response and get_ollama_response: the model's reply, or the
\* warning text returned from the except Exception clause when the request
\* raises (each text begins with a warning sign in the source).
get_openai_response(result) ==
    IF result = "ok" THEN "reply" ELSE "Could not get a response from OpenAI."
get_ollama_response(result) ==
    IF result = "ok" THEN "reply" ELSE "Could not get a response from Ollama."

\* voice_assistant.py asks the backend in line: the except clauses of the
\* OpenAI request and the two of the Ollama request assign the reply.
InlineReply(openai, result) ==
    CASE result = "ok" -> "reply"
      [] result # "ok" /\ openai -> "Could not get a response from OpenAI."
      [] result = "request_error" /\ ~openai -> "Failed to get response from Ollama."
      [] OTHER -> "Could not get a response from Ollama."

\* An append of the transcript without its reply.
AppendTranscriptOnly(hist, user_text, reply) ==
    Append(hist, [role |-> "user", content |-> user_text])

\* handle_transcript: what it does to the history.
handle_transcript(hist, user_text, reply) ==
    hist \o <<[role |-> "user", content |-> user_text],
              [role |-> "assistant", content |-> reply]>>

\* The history after handle_transcript has asked the chosen backend.
Answered(user_text, result) ==
    handle_transcript(history, user_text,
                      IF app = AppPlain THEN InlineReply(use_openai, result)
                      ELSE IF use_openai THEN get_openai_response(result)
                      ELSE get_ollama_response(result))

\* The history has room for a transcript and its reply.
HasRoom == Len(history) + 2 <= MaxHistory

AssistantInit ==
    /\ app \in Apps
    /\ use_openai \in BOOLEAN
    /\ history = <<>>
    /\ uploaded_audio = 0
    /\ playing = FALSE
    /\ audio_frames = 0
    /\ recording = FALSE
    /\ recording_state = "stopped"
    /\ current_transcript = NoTranscript
    /\ step = (IF app = AppPlain THEN "upload" ELSE "top")
    /\ clicked = ""
    /\ rerun = FALSE
    /\ takes = 0
    /\ handled = [n \in 1..MaxTakes |-> 0]
    /\ forwarded = 0
    /\ receiving = "no"
    /\ stale = FALSE
    /\ temp_files = 0
    /\ backend = "idle"
    /\ ScriptsOff

\* A new run starts: the run in progress, if any, is stopped where it
\* stands; only the button that was clicked reads True in the new run.
Begin(button) ==
    /\ step' = (IF app = AppPlain THEN "upload" ELSE "top")
    /\ clicked' = button
    /\ rerun' = FALSE
    /\ backend' = "idle"

\* The user presses START: the stream plays; fixed_voice_assistant.py gets
\* a new AudioProcessor (frames = [], recording = True).
UserStart ==
    /\ app \in {AppRecorder, AppFixed}
    /\ ~playing
    /\ playing' = TRUE
    /\ audio_frames' = (IF app = AppFixed THEN 0 ELSE audio_frames)
    /\ recording' = (IF app = AppFixed THEN TRUE ELSE recording)
    /\ Begin("")
    /\ UNCHANGED <<app, use_openai, history, uploaded_audio, recording_state,
                   current_transcript, takes, handled, forwarded>>
    /\ receiving' = (IF app = AppFixed THEN "no" ELSE receiving)
    /\ UNCHANGED <<stale, temp_files>>
    /\ UNCHANGED jvars

\* The user presses STOP: the stream no longer plays.
UserStop ==
    /\ app \in {AppRecorder, AppFixed}
    /\ playing
    /\ playing' = FALSE
    /\ Begin("")
    /\ UNCHANGED <<app, use_openai, history, uploaded_audio, audio_frames,
                   recording, recording_state, current_transcript, takes,
                   handled, forwarded>>
    /\ UNCHANGED <<receiving, stale, temp_files>>
    /\ UNCHANGED jvars

\* The user puts a file into the uploader, or removes the one in it.
UserUpload ==
    /\ app \in Apps
    /\ \E file \in 0..MaxUploads :
          /\ file # uploaded_audio
          /\ uploaded_audio' = file
    /\ forwarded' = 0
    /\ Begin("")
    /\ UNCHANGED <<app, use_openai, history, playing, audio_frames, recording,
                   recording_state, current_transcript, takes, handled>>
    /\ UNCHANGED <<receiving, stale, temp_files>>
    /\ UNCHANGED jvars

\* The buttons the user may click: "Speak it" or the Debug Info checkbox
\* ("other"), or a button the script reads.
Buttons ==
    {"other"}
        \cup (IF app = AppRecorder /\ audio_frames > 0 THEN {"clear_buffer"} ELSE {})
        \cup (IF app = AppFixed /\ history # <<>> THEN {"clear_history"} ELSE {})
        \cup (IF app = AppFixed /\ playing THEN {"stop_transcribe"} ELSE {})

\* The user clicks a button or a checkbox.
UserClick ==
    /\ app \in Apps
    /\ \E button \in Buttons : Begin(button)
    /\ UNCHANGED <<app, use_openai, history, uploaded_audio, playing,
                   audio_frames, recording, recording_state, current_transcript,
                   takes, handled, forwarded>>
    /\ UNCHANGED <<receiving, stale, temp_files>>
    /\ UNCHANGED jvars

\* The run st.rerun() asked for starts.
Rerun ==
    /\ step = "idle"
    /\ rerun
    /\ Begin("")
    /\ UNCHANGED <<app, use_openai, history, uploaded_audio, playing,
                   audio_frames, recording, recording_state, current_transcript,
                   takes, handled, forwarded>>
    /\ UNCHANGED <<receiving, stale, temp_files>>
    /\ UNCHANGED jvars

\* AudioProcessor.recv on the audio thread, in the steps between which the
\* script thread may run.  A call starts while the stream plays:
\* voice_assistant/voice_assistant.py takes the processor's lock and
\* converts the frame, fixed_voice_assistant.py tests self.recording and
\* converts the frame.
recvEnter ==
    /\ app \in {AppRecorder, AppFixed}
    /\ playing
    /\ receiving = "no"
    /\ app = AppFixed => recording
    /\ audio_frames < MaxFrames
    /\ receiving' = "entered"
    /\ UNCHANGED <<app, use_openai, history, uploaded_audio, playing,
                   audio_frames, recording, recording_state, current_transcript,
                   step, clicked, rerun, takes, handled, forwarded, stale,
                   temp_files, backend>>
    /\ UNCHANGED jvars

\* voice_assistant/voice_assistant.py: recv evaluates
\* st.session_state.audio_frames, the list it is about to append to.
recvLoad ==
    /\ app = AppRecorder
    /\ receiving = "entered"
    /\ receiving' = "loaded"
    /\ stale' = FALSE
    /\ UNCHANGED <<app, use_openai, history, uploaded_audio, playing,
                   audio_frames, recording, recording_state, current_transcript,
                   step, clicked, rerun, takes, handled, forwarded, temp_files,
                   backend>>
    /\ UNCHANGED jvars

\* recv appends the frame and returns.  In voice_assistant/voice_assistant.py
\* the frame goes to the list that was loaded, which a reset of the buffer
\* in the meantime has replaced by a new one; fixed_voice_assistant.py
\* appends to self.frames, which clear_frames empties in place.
recv ==
    /\ app \in {AppRecorder, AppFixed}
    /\ receiving = (IF app = AppRecorder THEN "loaded" ELSE "entered")
    /\ receiving' = "no"
    /\ audio_frames' = (IF stale THEN audio_frames ELSE audio_frames + 1)
    /\ stale' = FALSE
    /\ UNCHANGED <<app, use_openai, history, uploaded_audio, playing, recording,
                   recording_state, current_transcript, step, clicked, rerun,
                   takes, handled, forwarded, temp_files, backend>>
    /\ UNCHANGED jvars

\* st.session_state.audio_frames = []: a list that recv has loaded is no
\* longer the buffer.
Reset == stale' = (receiving = "loaded")

\* voice_assistant/voice_assistant.py: the recording state machine, up to
\* the first st call of the branch taken.
StateMachine ==
    /\ app = AppRecorder
    /\ step = "top"
    /\ \/ /\ playing
          /\ recording_state' = "recording"
          /\ current_transcript' = NoTranscript
          /\ step' = "buffer"
       \/ /\ ~playing
          /\ recording_state = "recording"
          /\ recording_state' = "processing"
          /\ step' = "processing"
          /\ UNCHANGED current_transcript
       \/ /\ ~playing
          /\ recording_state = "processing"
          /\ step' = "buffer"
          /\ UNCHANGED <<recording_state, current_transcript>>
       \/ /\ ~playing
          /\ recording_state = "completed"
          /\ step' = (IF Truthy(current_transcript) THEN "handle" ELSE "buffer")
          /\ UNCHANGED <<recording_state, current_transcript>>
       \/ /\ ~playing
          /\ recording_state \notin {"recording", "processing", "completed"}
          /\ recording_state' = "stopped"
          /\ step' = "buffer"
          /\ UNCHANGED current_transcript
    /\ UNCHANGED <<app, use_openai, history, uploaded_audio, playing,
                   audio_frames, recording, clicked, rerun, takes, handled,
                   forwarded>>
    /\ UNCHANGED <<receiving, stale, temp_files, backend>>
    /\ UNCHANGED jvars

\* What process_recorded_audio may meet: a text, an empty transcription, a
\* file under 1000 bytes, an exception of save_audio, an exception of
\* whisper.
ProcessResults == {"text", "empty", "too_small", "save_error", "transcribe_error"}

\* The recording has stopped: with frames, process_recorded_audio runs up
\* to its next st call (a text: up to st.rerun()); without, the state is
\* set back to stopped.  save_audio creates the temporary file; it is
\* removed before the st.error of an empty transcription, it is on disk
\* at the st.warning of a small file and at the st.error of a failure.
ProcessRecording ==
    /\ app = AppRecorder
    /\ step = "processing"
    /\ \/ /\ audio_frames = 0
          /\ recording_state' = "stopped"
          /\ step' = "buffer"
          /\ UNCHANGED <<audio_frames, current_transcript, rerun, takes, stale,
                         temp_files>>
       \/ /\ audio_frames > 0
          /\ takes < MaxTakes
          /\ takes' = takes + 1
          /\ audio_frames' = 0
          /\ Reset
          /\ current_transcript' = transcribe_audio("text", "recording", takes + 1)
          /\ recording_state' = "completed"
          /\ rerun' = TRUE
          /\ step' = "idle"
          /\ UNCHANGED temp_files
       \/ /\ audio_frames > 0
          /\ audio_frames' = 0
          /\ Reset
          /\ step' = "failed"
          /\ UNCHANGED <<recording_state, current_transcript, rerun, takes,
                         temp_files>>
       \/ /\ audio_frames > 0
          /\ temp_files < MaxTempFiles
          /\ temp_files' = temp_files + 1
          /\ \E result \in ProcessResults \ {"text", "empty"} :
                step' = (IF result = "save_error" THEN "save_failed" ELSE "failing")
          /\ UNCHANGED <<audio_frames, recording_state, current_transcript,
                         rerun, takes, stale>>
    /\ UNCHANGED <<app, use_openai, history, uploaded_audio, playing, recording,
                   clicked, handled, forwarded, receiving, backend>>
    /\ UNCHANGED jvars

\* process_recorded_audio after the st.warning or st.error of a failure:
\* the file of a small recording or of a failed transcription is removed,
\* the file that save_audio left when it raised is not; the frames are
\* cleared, None is returned, the state is set to stopped.
ProcessFailed ==
    /\ app = AppRecorder
    /\ step \in {"failing", "save_failed"}
    /\ temp_files' = (IF step = "failing" THEN temp_files - 1 ELSE temp_files)
    /\ audio_frames' = 0
    /\ Reset
    /\ recording_state' = "stopped"
    /\ step' = "buffer"
    /\ UNCHANGED <<app, use_openai, history, uploaded_audio, playing, recording,
                   current_transcript, clicked, rerun, takes, handled, forwarded,
                   receiving, backend>>
    /\ UNCHANGED jvars

\* process_recorded_audio after the st.error of an empty transcription:
\* None is returned, the state is set to stopped.
ProcessEmpty ==
    /\ app = AppRecorder
    /\ step = "failed"
    /\ recording_state' = "stopped"
    /\ step' = "buffer"
    /\ UNCHANGED <<app, use_openai, history, uploaded_audio, playing,
                   audio_frames, recording, current_transcript, clicked, rerun,
                   takes, handled, forwarded, receiving, stale, temp_files,
                   backend>>
    /\ UNCHANGED jvars

\* The completed branch: handle_transcript with the current transcript, up
\* to its next st call: the st.success that follows its two appends, or,
\* when the request failed, the st.error of log_and_alert_error in the
\* except clause, which precedes them.
HandleRecorded ==
    /\ app = AppRecorder
    /\ step = "handle"
    /\ HasRoom
    /\ \E result \in LLMResults :
          /\ backend' = result
          /\ IF result = "ok"
             THEN /\ history' = Answered(current_transcript, result)
                  /\ handled' = [handled EXCEPT ![current_transcript.n] = @ + 1]
                  /\ step' = "handled"
             ELSE /\ step' = "alert_recorded"
                  /\ UNCHANGED <<history, handled>>
    /\ UNCHANGED <<app, use_openai, uploaded_audio, playing, audio_frames,
                   recording, recording_state, current_transcript, clicked,
                   rerun, takes, forwarded>>
    /\ UNCHANGED <<receiving, stale, temp_files>>
    /\ UNCHANGED jvars

\* The completed branch after handle_transcript: reset for the next
\* recording.
ResetRecorded ==
    /\ app = AppRecorder
    /\ step = "handled"
    /\ recording_state' = "stopped"
    /\ current_transcript' = NoTranscript
    /\ step' = "buffer"
    /\ UNCHANGED <<app, use_openai, history, uploaded_audio, playing,
                   audio_frames, recording, clicked, rerun, takes, handled,
                   forwarded>>
    /\ backend' = "idle"
    /\ UNCHANGED <<receiving, stale, temp_files>>
    /\ UNCHANGED jvars

\* The buffer status and the Clear Audio Buffer button.
BufferSection ==
    /\ app = AppRecorder
    /\ step = "buffer"
    /\ IF audio_frames > 0 /\ clicked = "clear_buffer"
       THEN /\ audio_frames' = 0
            /\ recording_state' = "stopped"
            /\ current_transcript' = NoTranscript
            /\ rerun' = TRUE
            /\ step' = "idle"
            /\ Reset
       ELSE /\ step' = "upload"
            /\ UNCHANGED <<audio_frames, recording_state, current_transcript,
                           rerun, stale>>
    /\ UNCHANGED <<app, use_openai, history, uploaded_audio, playing, recording,
                   clicked, takes, handled, forwarded>>
    /\ UNCHANGED <<receiving, temp_files, backend>>
    /\ UNCHANGED jvars

\* fixed_voice_assistant.py: the recording section.  On a click of Stop and
\* Transcribe the processor stops recording and the frames are saved and
\* transcribed, up to the next st call: that of a failure, or the text area
\* of handle_transcript; after an empty transcription the frames are
\* cleared without one.  transcribe_audio removes the temporary file in
\* its finally clause; the file save_audio created is left on disk when
\* the writing raised.
RecordSection ==
    /\ app = AppFixed
    /\ step = "top"
    /\ \/ /\ ~(playing /\ clicked = "stop_transcribe")
          /\ step' = "upload"
          /\ UNCHANGED <<audio_frames, recording, temp_files>>
       \/ /\ playing /\ clicked = "stop_transcribe"
          /\ audio_frames = 0
          /\ recording' = FALSE
          /\ step' = "upload"
          /\ UNCHANGED <<audio_frames, temp_files>>
       \/ /\ playing /\ clicked = "stop_transcribe"
          /\ audio_frames > 0
          /\ \E result \in ProcessResults \ {"too_small"} :
                IF result = "empty"
                THEN /\ audio_frames' = 0
                     /\ recording' = TRUE
                     /\ step' = "upload"
                     /\ UNCHANGED temp_files
                ELSE /\ recording' = FALSE
                     /\ step' = (IF result = "text" THEN "transcribed" ELSE "clearing")
                     /\ IF result = "save_error"
                        THEN /\ temp_files < MaxTempFiles
                             /\ temp_files' = temp_files + 1
                        ELSE UNCHANGED temp_files
                     /\ UNCHANGED audio_frames
    /\ UNCHANGED <<app, use_openai, history, uploaded_audio, playing,
                   recording_state, current_transcript, clicked, rerun, takes,
                   handled, forwarded>>
    /\ UNCHANGED <<receiving, stale, backend>>
    /\ UNCHANGED jvars

\* fixed_voice_assistant.py: handle_transcript with the text of the
\* recording, up to its next st call: the st.success that follows its two
\* appends, or the st.error of a failed request.
HandleStopped ==
    /\ app = AppFixed
    /\ step = "transcribed"
    /\ HasRoom
    /\ \E result \in LLMResults :
          /\ backend' = result
          /\ IF result = "ok"
             THEN /\ history' = Answered(transcribe_audio("text", "recording", 0), result)
                  /\ step' = "clearing"
             ELSE /\ step' = "alert_stopped"
                  /\ UNCHANGED history
    /\ UNCHANGED <<app, use_openai, uploaded_audio, playing, audio_frames,
                   recording, recording_state, current_transcript, clicked,
                   rerun, takes, handled, forwarded>>
    /\ UNCHANGED <<receiving, stale, temp_files>>
    /\ UNCHANGED jvars

\* fixed_voice_assistant.py: clear_frames after the processing.
ClearFrames ==
    /\ app = AppFixed
    /\ step = "clearing"
    /\ audio_frames' = 0
    /\ recording' = TRUE
    /\ step' = "upload"
    /\ UNCHANGED <<app, use_openai, history, uploaded_audio, playing,
                   recording_state, current_transcript, clicked, rerun, takes,
                   handled, forwarded>>
    /\ backend' = "idle"
    /\ UNCHANGED <<receiving, stale, temp_files>>
    /\ UNCHANGED jvars

\* The upload section: with a file in the uploader it is saved and
\* transcribed, and a text is handed to handle_transcript, up to the
\* st.error of a failed request or to the end of the section.
\* voice_assistant.py appends whatever text whisper returned, and stops
\* with a NameError when whisper raised.
UploadSection ==
    /\ app \in Apps
    /\ step = "upload"
    /\ \/ /\ uploaded_audio = 0
          /\ step' = (IF app = AppFixed THEN "clear" ELSE "idle")
          /\ UNCHANGED <<history, forwarded, backend>>
       \/ /\ uploaded_audio # 0
          /\ \E heard \in TranscribeResults :
                LET user_text == transcribe_audio(heard, "upload", uploaded_audio)
                    appends   == IF app = AppPlain THEN heard # "error"
                                 ELSE Truthy(user_text)
                IN  IF appends
                    THEN /\ HasRoom
                         /\ forwarded < MaxForwarded
                         /\ \E result \in LLMResults :
                               /\ backend' = result
                               /\ IF result = "ok"
                                  THEN /\ history' = Answered(user_text, result)
                                       /\ forwarded' = forwarded + 1
                                       /\ step' = (IF app = AppFixed THEN "clear"
                                                   ELSE "idle")
                                  ELSE /\ step' = (IF Truthy(user_text)
                                                   THEN "alert_upload"
                                                   ELSE "alert_silent")
                                       /\ UNCHANGED <<history, forwarded>>
                    ELSE /\ step' = (IF app = AppFixed THEN "clear" ELSE "idle")
                         /\ UNCHANGED <<history, forwarded, backend>>
    /\ UNCHANGED <<app, use_openai, uploaded_audio, playing, audio_frames,
                   recording, recording_state, current_transcript, clicked,
                   rerun, takes, handled>>
    /\ UNCHANGED <<receiving, stale, temp_files>>
    /\ UNCHANGED jvars

\* The st calls at which a handle_transcript stands after its request
\* failed: in the completed branch, in the recording section of
\* fixed_voice_assistant.py, in the upload section (with a text, and in
\* voice_assistant.py also with none).
Alerting == {"alert_recorded", "alert_stopped", "alert_upload", "alert_silent"}

\* handle_transcript after the st.error of a failed request: the warning
\* text is returned as the reply and the transcript and the reply are
\* appended, up to the st.success that follows.
HandleFailed ==
    /\ app \in Apps
    /\ step \in Alerting
    /\ LET user_text ==
               CASE step = "alert_recorded" -> current_transcript
                 [] step = "alert_stopped" -> transcribe_audio("text", "recording", 0)
                 [] step = "alert_upload" ->
                        transcribe_audio("text", "upload", uploaded_audio)
                 [] OTHER -> transcribe_audio("empty", "upload", uploaded_audio)
       IN  history' = Answered(user_text, backend)
    /\ handled' = (IF step = "alert_recorded"
                   THEN [handled EXCEPT ![current_transcript.n] = @ + 1]
                   ELSE handled)
    /\ forwarded' = (IF step \in {"alert_upload", "alert_silent"}
                     THEN forwarded + 1 ELSE forwarded)
    /\ step' = (CASE step = "alert_recorded" -> "handled"
                  [] step = "alert_stopped" -> "clearing"
                  [] OTHER -> IF app = AppFixed THEN "clear" ELSE "idle")
    /\ UNCHANGED <<app, use_openai, uploaded_audio, playing, audio_frames,
                   recording, recording_state, current_transcript, clicked,
                   rerun, takes, receiving, stale, temp_files, backend>>
    /\ UNCHANGED jvars

\* fixed_voice_assistant.py: the Clear Conversation History button.
ClearSection ==
    /\ app = AppFixed
    /\ step = "clear"
    /\ IF history # <<>> /\ clicked = "clear_history"
       THEN history' = <<>> /\ rerun' = TRUE
       ELSE UNCHANGED <<history, rerun>>
    /\ step' = "idle"
    /\ UNCHANGED <<app, use_openai, uploaded_audio, playing, audio_frames,
                   recording, recording_state, current_transcript, clicked,
                   takes, handled, forwarded>>
    /\ backend' = "idle"
    /\ UNCHANGED <<receiving, stale, temp_files>>
    /\ UNCHANGED jvars

AssistantNext ==
    \/ UserStart
    \/ UserStop
    \/ UserUpload
    \/ UserClick
    \/ Rerun
    \/ recvEnter
    \/ recvLoad
    \/ recv
    \/ StateMachine
    \/ ProcessRecording
    \/ ProcessFailed
    \/ ProcessEmpty
    \/ HandleRecorded
    \/ ResetRecorded
    \/ BufferSection
    \/ RecordSection
    \/ HandleStopped
    \/ ClearFrames
    \/ UploadSection
    \/ HandleFailed
    \/ ClearSection

AssistantSpec == AssistantInit /\ [][AssistantNext]_vars

(***************************************************************************)
(* Vocabulary of the properties.                                           *)
(***************************************************************************)

RequiredFields == {"title", "outline", "intro"}

\* v[k] of a dict that has the key; a string; a list of strings.
Get(v, k) == v.items[KeyIndex(v.keys, k)]
IsStr(v) == v.t = "str"
IsStrList(v) == v.t = "arr" /\ \A i \in 1..Len(v.items) : IsStr(v.items[i])

\* The schema: an object with title (string), outline (exactly 3 strings)
\* and intro (string).
Conforms(v) ==
    /\ \A name \in RequiredFields : HasKey(v, name)
    /\ IsStr(Get(v, "title"))
    /\ IsStrList(Get(v, "outline"))
    /\ Len(Get(v, "outline").items) = 3
    /\ IsStr(Get(v, "intro"))

\* The field values of a conforming record.
FieldValues(v) ==
    [title   |-> Get(v, "title").s,
     outline |-> [i \in 1..3 |-> Get(v, "outline").items[i].s],
     intro   |-> Get(v, "intro").s]

\* The run got a raw text from the generator.
Obtained == Len(printed) > 0 /\ printed[1] = "raw_output"

\* The repair function has returned.
Repaired == script \in RepairScripts /\ pc \in {"cleaned", "done"} /\ Obtained

\* The run emitted exactly one result, of this kind.
Emitted(kind) == Len(outcome) = 1 /\ outcome[1].kind = kind

\* The elements of a sequence.
Range(seq) == {seq[i] : i \in 1..Len(seq)}

\* The examples of the specification's testable properties.
TrailingCommaExample == "{\"title\":\"A\",\"outline\":[\"B\",\"C\",\"D\"],}"
BracelessExample == "\"title\":\"A\",\"outline\":[\"B\",\"C\",\"D\"],\"intro\":\"E\""
OutlineBCD == JArr(<<JStr("B"), JStr("C"), JStr("D")>>)

(***************************************************************************)
(* C1 .. C10                                                               *)
(***************************************************************************)

\* C1: already-valid passthrough.  Whenever the raw text given to
\* fix_json_correctly is valid JSON that satisfies the schema, the repaired
\* text parses to a record with the same field values.
C1_Passthrough ==
    (/\ script = "corrected_generate"
     /\ Repaired
     /\ loads(raw).ok
     /\ Conforms(loads(raw).val))
        => /\ loads(cleaned).ok
           /\ Conforms(loads(cleaned).val)
           /\ FieldValues(loads(cleaned).val) = FieldValues(loads(raw).val)

\* C2: no double-quoting.  fix_json of generate_fixed_v2.py leaves every
\* required key that is already quoted and followed by a colon in the text:
\* "title": in the raw text is still "title": in the repaired text.
C2_QuotedKeysKept ==
    (script = "generate_fixed_v2" /\ Repaired)
        => \A name \in RequiredFields :
               Contains(raw, Key(name, "quoted")) => Contains(cleaned, Key(name, "quoted"))

\* C3: list-shape rejection.  Whenever the trimmed raw text begins with
\* '[', each of the three repair functions with a list branch returns its
\* error object (and warns), and neither quotes keys nor wraps in braces.
C3_ListRejected ==
    (/\ script \in {"corrected_generate", "generate_fixed", "generate_fixed_v2"}
     /\ Repaired
     /\ StartsWith(Strip(raw), "["))
        => /\ cleaned = (IF script = "corrected_generate"
                         THEN "{\"error\": \"Model generated non-JSON output\"}"
                         ELSE ErrorObject(raw))
           /\ \E i \in 1..Len(printed) : printed[i] = "warn_non_json"

\* C4: success only on schema conformance.  What main() of
\* corrected_generate.py reports as successfully parsed satisfies the schema.
C4_SuccessConforms ==
    (script = "corrected_generate" /\ pc = "done" /\ Emitted("parsed"))
        => Conforms(outcome[1].rec)

\* C5: idempotence on success.  When the repair of the raw text succeeds
\* with a record R that satisfies the schema, the repair of the JSON
\* serialization of R succeeds too and yields the field values of R.
C5_Idempotent ==
    (/\ script = "corrected_generate"
     /\ pc = "done"
     /\ Emitted("parsed")
     /\ Conforms(outcome[1].rec))
        => LET again == loads(fix_json_correctly(dumps(outcome[1].rec, 0)))
           IN  /\ again.ok
               /\ Conforms(again.val)
               /\ FieldValues(again.val) = FieldValues(outcome[1].rec)

\* A comma of s right before a closing '}' or ']', whitespace allowed
\* between the two.
CommaBeforeCloser(s, i) ==
    /\ Ch(s, i) = ","
    /\ \E j \in (i + 1)..Len(s) :
           /\ Ch(s, j) \in {"}", "]"}
           /\ \A k \in (i + 1)..(j - 1) : Ch(s, k) \in Whitespace
NumCommas(s) == Cardinality({i \in 1..Len(s) : Ch(s, i) = ","})
NumTrailingCommas(s) == Cardinality({i \in 1..Len(s) : CommaBeforeCloser(s, i)})

\* s without its whitespace and without the commas before a closer.
WithoutTrailingCommas(s) ==
    Join([i \in 1..Len(s) |->
            IF Ch(s, i) \in Whitespace \/ CommaBeforeCloser(s, i) THEN "" ELSE Ch(s, i)])
WithoutWhitespace(s) ==
    Join([i \in 1..Len(s) |-> IF Ch(s, i) \in Whitespace THEN "" ELSE Ch(s, i)])

\* The text the trailing-comma substitution of the running script is
\* applied to.
BeforeCommaRemoval ==
    IF script = "simple_fix" THEN BraceCompletedSimple(raw) ELSE BraceCompleted(raw)

\* The trailing-comma substitution of corrected_generate.py or
\* simple_fix.py has acted on the raw text of this state.
CommaRemovalRan ==
    /\ script \in {"corrected_generate", "simple_fix"}
    /\ Repaired
    /\ ~(script = "corrected_generate" /\ LooksLikeList(Strip(raw)))

\* C6: trailing-comma removal.  In fix_json_correctly and fix_json_simple
\* every comma that stands right before a closing '}' or ']' (whitespace
\* allowed between) is removed, at every occurrence: the repaired text has
\* as many commas fewer as there were such commas, in fix_json_correctly
\* nothing but these commas and whitespace is changed, and the text
\* {"title":"A","outline":["B","C","D"],} parses with outline ["B","C","D"].
C6_TrailingCommasRemoved ==
    CommaRemovalRan
        => /\ NumCommas(cleaned)
                  = NumCommas(BeforeCommaRemoval) - NumTrailingCommas(BeforeCommaRemoval)
           /\ script = "corrected_generate"
                  => WithoutWhitespace(cleaned) = WithoutTrailingCommas(BeforeCommaRemoval)
           /\ (raw = TrailingCommaExample /\ pc = "done")
                  => /\ Emitted("parsed")
                     /\ HasKey(outcome[1].rec, "outline")
                     /\ Get(outcome[1].rec, "outline") = OutlineBCD

\* C6 witness: a run whose text had trailing commas at two places, before a
\* ']' and before a '}', and parsed after the repair.
C6_Witness ==
    /\ CommaRemovalRan
    /\ pc = "done"
    /\ NumTrailingCommas(BeforeCommaRemoval) >= 2
    /\ \E i, j \in 1..Len(BeforeCommaRemoval) :
           /\ CommaBeforeCloser(BeforeCommaRemoval, i)
           /\ CommaBeforeCloser(BeforeCommaRemoval, j)
           /\ j > i + 1
    /\ Emitted("parsed")
    /\ Conforms(outcome[1].rec)

\* C7: brace completion.  Whatever fix_json_correctly and fix_json of
\* generate_fixed.py do not reject as a list comes back starting with '{'
\* and ending with '}', and the braceless text of the three quoted fields
\* is repaired to a record with the three original values.
C7_BraceCompletion ==
    (/\ script \in {"corrected_generate", "generate_fixed"}
     /\ Repaired
     /\ ~LooksLikeList(IF script = "corrected_generate" THEN Strip(raw) ELSE raw))
        => /\ StartsWith(cleaned, "{")
           /\ EndsWith(cleaned, "}")
           /\ (raw = BracelessExample /\ pc = "done")
                  => /\ Emitted("parsed")
                     /\ Conforms(outcome[1].rec)
                     /\ FieldValues(outcome[1].rec)
                            = [title |-> "A", outline |-> <<"B", "C", "D">>, intro |-> "E"]

\* The fragment "<name>": <value> of a text, as the specification's field
\* salvage reads it: the first quoted occurrence of the key, then a JSON
\* string or a JSON array.
Fragment(text, name) ==
    LET at == Find(text, Key(name, "quoted"), 0)
        v  == SkipWs(text, at + 1 + Len(Key(name, "quoted")))
    IN  IF at = -1 THEN Bad
        ELSE IF name = "outline"
             THEN (IF Ch(text, v) = "[" THEN ScanOnce(text, v) ELSE Bad)
        ELSE IF Ch(text, v) = "\"" THEN ScanString(text, v + 1)
        ELSE Bad
IntactFragments(text) ==
    /\ \A name \in RequiredFields : Fragment(text, name).ok
    /\ IsStrList(Fragment(text, "outline").val)

\* C8: field salvage.  Whenever the repaired text does not parse while the
\* raw text holds intact title, outline and intro fragments, main() of
\* generate_fixed_v2.py and of simple_fix.py emit a reconstructed record
\* whose three values are the values of the fragments.
C8_FieldSalvage ==
    (/\ script \in {"generate_fixed_v2", "simple_fix"}
     /\ pc = "done"
     /\ Obtained
     /\ ~loads(cleaned).ok
     /\ IntactFragments(raw))
        => /\ Emitted("reconstructed")
           /\ Get(outcome[1].rec, "title") = Fragment(raw, "title").val
           /\ Get(outcome[1].rec, "outline") = Fragment(raw, "outline").val
           /\ Get(outcome[1].rec, "intro") = Fragment(raw, "intro").val

\* The string values anywhere in a JSON value of the modelled depth.
StringsIn(v) ==
    IF v.t = "str" THEN {v.s}
    ELSE UNION {IF v.items[i].t = "str" THEN {v.items[i].s}
                ELSE {v.items[i].items[j].s : j \in 1..Len(v.items[i].items)} :
                i \in 1..Len(v.items)}

\* C9: unrecoverable input.  A raw text that names none of the required
\* fields ends in the failure outcome, where the caller falls back, and the
\* text the repair function returns holds no string value that was not in
\* the raw text.
C9_Unrecoverable ==
    (/\ script \in {"corrected_generate", "generate_fixed_v2"}
     /\ pc = "done"
     /\ Obtained
     /\ \A name \in RequiredFields : ~Contains(raw, name))
        => /\ Emitted("fallback")
           /\ loads(cleaned).ok
                  => \A text \in StringsIn(loads(cleaned).val) : Contains(raw, text)

\* C10: caller fallback on every failure.  Every finished run of
\* simple_fix.py, generate_fixed_v2.py and generate_alternative.py that
\* obtained a raw text has emitted exactly one result: the parsed, the
\* reconstructed or the fallback record.
C10_OneOutcome ==
    (/\ script \in {"simple_fix", "generate_fixed_v2", "generate_alternative"}
     /\ pc = "done"
     /\ Obtained)
        => /\ Len(outcome) = 1
           /\ outcome[1].kind \in {"parsed", "reconstructed", "fallback"}

(***************************************************************************)
(* C11 .. C20                                                              *)
(***************************************************************************)

\* The lines a run may end on when no exception reached the outermost
\* handler of main(): the parsed, reconstructed or fallback record was
\* printed, or (simple_fix.py) only the parse error.
NormalEnds == {"success", "reconstructed", "fallback", "parse_failed"}

\* C11: no fault on malformed input.  In every script, once the generator
\* has returned a raw text (empty, garbage, truncated, list-shaped or
\* well-formed), the repair function and the parse, salvage and fallback
\* that follow run to their end: no exception reaches the outermost
\* handler of main(), and the run ends on one of the normal lines.
C11_NoFault ==
    Obtained =>
        /\ "pipeline_error" \notin Range(printed)
        /\ pc = "done" => printed[Len(printed)] \in NormalEnds

\* C11 witness: a truncated text with the three keys, whose reconstruction
\* in simple_fix.py raised and was caught by the handler's own try block.
C11_Witness ==
    /\ script = "simple_fix"
    /\ pc = "done"
    /\ raw \in TruncatedDocs
    /\ "reconstruction_failed" \in Range(printed)

\* The scripts whose fallback is the "<topic> Guide" record.
GuideScripts == {"corrected_generate", "generate_fixed", "generate_fixed_v2"}

\* The outline of the "<topic> Guide" record.
GuideOutline ==
    JArr(<<JStr("Introduction"), JStr("Main Content"), JStr("Conclusion")>>)

\* C12 as the specification states it: whenever one of these scripts emits
\* its fallback, the record is title "<topic> Guide", outline
\* ["Introduction","Main Content","Conclusion"] and intro
\* "This is a <tone> guide about <topic>." with the topic and the tone
\* exactly as the caller supplied them.
C12_FallbackVerbatim ==
    (script \in GuideScripts /\ Emitted("fallback")) =>
        outcome[1].rec =
            Record(topic \o " Guide", GuideOutline,
                   "This is a " \o tone \o " guide about " \o topic \o ".")

\* C12, amended: whenever one of these scripts emits its fallback, the
\* record satisfies the schema and is determined by the topic and the tone
\* alone, whatever the raw text was: title "<topic> Guide" with the topic
\* as supplied, outline ["Introduction","Main Content","Conclusion"], and
\* intro "This is a <tone> guide about <topic>." with the tone and the
\* topic in lower case.
C12_FallbackLowerCased ==
    (script \in GuideScripts /\ Emitted("fallback")) =>
        /\ Conforms(outcome[1].rec)
        /\ outcome[1].rec =
               Record(topic \o " Guide", GuideOutline,
                      "This is a " \o Lower(tone) \o " guide about "
                          \o Lower(topic) \o ".")

\* C12 witness: generate_fixed_v2.py fell back for a caller whose topic and
\* tone have capital letters.
C12_Witness ==
    /\ script = "generate_fixed_v2"
    /\ Emitted("fallback")
    /\ tone # Lower(tone)
    /\ topic # Lower(topic)

\* C13: the repair function is pure.  Between main()'s print of the raw
\* text and its print of the cleaned text the repair function runs; it
\* prints nothing, for every raw text: the first two lines of a run whose
\* repair has returned are those two prints of main().
C13_RepairPrintsNothing ==
    Repaired =>
        /\ Len(printed) >= 2
        /\ SubSeq(printed, 1, 2) = <<"raw_output", "cleaned_output">>

\* The repair function took its non-JSON branch and returned.
Rejected == Repaired /\ "warn_non_json" \in Range(printed)

\* The prefixes of s of length at most n.
Prefixes(s, n) == {SubSeq(s, 1, k) : k \in 0..(IF Len(s) < n THEN Len(s) ELSE n)}

\* C14: the wrong-shape failure carries the first DiagChars characters of
\* the raw text.  Whenever a repair function rejects a raw text as a list,
\* whatever its length and content, the error object it returns is
\* readable and has a raw_output member whose text is a prefix of the raw
\* text of at most DiagChars characters, with or without the "..." that
\* marks the cut.
C14_DiagnosticPrefix ==
    Rejected =>
        LET e == loads(cleaned)
        IN  /\ e.ok
            /\ HasKey(e.val, "raw_output")
            /\ IsStr(Get(e.val, "raw_output"))
            /\ \E p \in Prefixes(raw, DiagChars) :
                   Get(e.val, "raw_output").s \in {p, p \o "..."}

\* The scripts that salvage the fields after a parse failure.
SalvageScripts == {"generate_fixed_v2", "simple_fix"}

\* C15: field salvage searches the original raw text.  Whenever the parse
\* of the repaired text has failed in generate_fixed_v2.py or simple_fix.py,
\* what the run emits is what the script's salvage yields when it searches
\* the raw text: the patched text has no part in it.
C15_SalvageSearchesRaw ==
    (script \in SalvageScripts /\ pc = "done" /\ Obtained /\ ~loads(cleaned).ok) =>
        outcome = Except(script, raw, raw, topic, tone).emits

\* Every required field name stands in the text in double quotes, followed
\* by a colon.
AllKeysQuoted(s) ==
    \A name \in RequiredFields : Contains(s, "\"" \o name \o "\":")

\* The text with the braces it lacks.
Braced(s) ==
    LET opened == IF StartsWith(s, "{") THEN s ELSE "{" \o s
    IN  IF EndsWith(opened, "}") THEN opened ELSE opened \o "}"

\* C16: key-quoting is skipped exactly when every required key is already
\* quoted.  Whatever text fix_json_correctly repairs (it did not reject it
\* as a list), the text it returns is the trimmed raw text, key-quoted
\* unless "title":, "outline": and "intro": all three occur in it, then
\* brace-completed and freed of trailing commas.
C16_QuotingSkippedIffAllQuoted ==
    (script = "corrected_generate" /\ Repaired /\ ~Rejected) =>
        LET s == Strip(raw)
        IN  cleaned = RemoveTrailingCommas(
                          Braced(IF AllKeysQuoted(s) THEN s ELSE QuoteKeys(s)))

\* The history is made of pairs: a user entry, then an assistant entry.
Alternates ==
    /\ Len(history) % 2 = 0
    /\ \A i \in 1..Len(history) :
          history[i].role = (IF i % 2 = 1 THEN "user" ELSE "assistant")

\* A step that lengthens the history appends one pair to it.
GrowsByPairs ==
    Len(history') > Len(history) =>
        /\ Len(history') = Len(history) + 2
        /\ SubSeq(history', 1, Len(history)) = history

\* A step that shortens the history is the Clear Conversation History
\* button of fixed_voice_assistant.py, and it empties the history.
ShrinksOnlyByClear ==
    Len(history') < Len(history) =>
        /\ app = AppFixed
        /\ step = "clear"
        /\ clicked = "clear_history"
        /\ history' = <<>>

C18_UploadForwardedOnce == forwarded <= 1

\* C19: in voice_assistant/voice_assistant.py no transcript of a recording
\* is dropped or handled twice.  Every take that was transcribed to a text
\* either still waits in current_transcript or was given to
\* handle_transcript exactly once, and once it was, no run ends with it
\* still in current_transcript.
C19_TranscriptHandledOnce ==
    app = AppRecorder =>
        \A n \in 1..takes :
            /\ handled[n] <= 1
            /\ handled[n] = 0 => current_transcript = Heard("recording", n)
            /\ (handled[n] = 1 /\ step \in {"idle", "top"}) =>
                   current_transcript = NoTranscript

\* C20: in voice_assistant/voice_assistant.py recording_state is always
\* one of stopped, recording, processing, completed, and no script run
\* ends with it at processing: between two runs, and when a run starts,
\* it is stopped, recording or completed.
C20_NeverLeftProcessing ==
    app = AppRecorder =>
        /\ recording_state \in {"stopped", "recording", "processing", "completed"}
        /\ step \in {"idle", "top"} => recording_state # "processing"

(***************************************************************************)
(* C21 .. C24                                                              *)
(***************************************************************************)

\* C21: in voice_assistant/voice_assistant.py every write to the
\* audio_frames buffer excludes every other: the script thread never resets
\* the buffer between recv's load of the list and its append, so that no
\* frame recv appends goes to a list that is no longer the buffer.
C21_AppendsNeverLost ==
    app = AppRecorder => ~stale

\* C22: in fixed_voice_assistant.py recv appends a frame only while
\* recording is true: no step adds a frame to frames after stop_recording()
\* has set recording to false and before clear_frames() sets it to true.
C22_AppendsOnlyWhileRecording ==
    [][(app = AppFixed /\ audio_frames' = audio_frames + 1) => recording]_vars

\* C23: every temporary audio file the assistant creates has been deleted
\* by the time its processing ends, on the success path and on every
\* failure path: no script run ends with a temporary file on disk.
C23_TempFilesDeleted ==
    step = "idle" => temp_files = 0

\* The warning texts the assistant puts in place of a reply.
Warnings ==
    {"Could not get a response from OpenAI.",
     "Could not get a response from Ollama.",
     "Failed to get response from Ollama."}

\* The backend request of the handle_transcript in progress has failed.
Failed == backend \in LLMResults \ {"ok"}

\* C24: a failure of the language-model backend never aborts the handling
\* of a transcript: the failed request leaves handle_transcript at its
\* error alert, the step that takes the run on from there appends the
\* user's transcript and, as the assistant's reply, one of the fixed
\* warning texts, and the history ends with that pair for the rest of the
\* call.
C24_FailureStillAppends ==
    /\ [](step \in Alerting => Failed)
    /\ []((Failed /\ step \notin Alerting) =>
            /\ Len(history) >= 2
            /\ history[Len(history) - 1].role = "user"
            /\ history[Len(history)].role = "assistant"
            /\ history[Len(history)].content \in Warnings)
    /\ [][(step \in Alerting /\ step' \notin Alerting /\ Failed') =>
            /\ Len(history') = Len(history) + 2
            /\ SubSeq(history', 1, Len(history)) = history
            /\ history'[Len(history')].content \in Warnings]_vars

\* C24 witness: a request to Ollama has failed and the history ends with
\* the transcript of a recording and the warning text.
C24_Witness ==
    /\ app = AppFixed
    /\ ~use_openai
    /\ backend = "error"
    /\ step = "clearing"
    /\ Len(history) = 2
    /\ history[1].content = Heard("recording", 0)
    /\ history[2].content = "Could not get a response from Ollama."

====
